---- MODULE Spec2Model ----
(***************************************************************************)
(* Model of the CCCD card pipeline: the corner geometry and the aspect    *)
(* padding of stages/crop.py, the field extraction of stages/ocr.py, the   *)
(* orchestration and the payload file of pipeline-ocr-cccd.py, and the     *)
(* OCR endpoint of app.py.                                                 *)
(*                                                                         *)
(* Points are <<x, y>> on an integer grid (values float32 holds exactly).  *)
(* Pure functions are operators; each is exercised by a specification      *)
(* whose Init draws `input` and whose action stores the result in `output`.*)
(***************************************************************************)
EXTENDS Integers, Sequences, FiniteSets, TLC

VARIABLES
    input,               \* argument of the function under study
    output,              \* its result, Pending before the call
    called,              \* whether the function has been applied
    pc,                  \* position of run_pipeline / crop_cccd
    detections,          \* result.boxes of the corner detector
    emblem,              \* detect_points: centre of the landmark, or NoneVal
    corners,             \* crop_cccd: list of corner centres
    ordered,             \* crop_cccd: [tl, tr, br, bl]
    warped,              \* crop_cccd: <<width, height>> of the warped image
    cropped_image_path,  \* run_pipeline: what crop_cccd returned
    files,               \* file system: path -> content kind
    cropCalls,           \* number of invocations of crop_cccd
    ocrCalls,            \* number of invocations of ocr.run
    raised,              \* exception that ended the run, or NoneVal
    sys_modules,         \* sys.modules: name -> invocation that installed it
    accesses             \* reads and writes of files and module-level objects

geoVars  == <<input, output, called>>
pipeVars == <<pc, detections, emblem, corners, ordered, warped,
              cropped_image_path, files, cropCalls, ocrCalls, raised>>
procVars == <<sys_modules, accesses>>
vars     == <<geoVars, pipeVars, procVars>>

NoneVal == "None"            \* Python None returned by crop_cccd
Pending == "pending"         \* not assigned yet
NoPoint == <<>>              \* emblem: Optional[Corner] = None
NoRaise == <<"none", "", "">>
NoModules == [name \in {"crop", "ocr"} |-> 0]   \* no invocation has loaded a stage

(***************************************************************************)
(* Bounds                                                                  *)
(***************************************************************************)
MaxCoord == 3        \* corner coordinates range over 0..MaxCoord

Coord  == 0..MaxCoord
Points == Coord \X Coord

(***************************************************************************)
(* numpy helpers                                                           *)
(***************************************************************************)
\* np.argmin: index of the first occurrence of the least value.
ArgMin(f) ==
    CHOOSE i \in DOMAIN f :
        /\ \A j \in DOMAIN f : f[i] <= f[j]
        /\ \A j \in DOMAIN f : j < i => f[j] > f[i]

\* np.argmax: index of the first occurrence of the greatest value.
ArgMax(f) ==
    CHOOSE i \in DOMAIN f :
        /\ \A j \in DOMAIN f : f[i] >= f[j]
        /\ \A j \in DOMAIN f : j < i => f[j] < f[i]

\* pts.sum(axis=1): x + y of every point.
SumXY(pts) == [i \in DOMAIN pts |-> pts[i][1] + pts[i][2]]

DiffReversed(pts) == [i \in DOMAIN pts |-> pts[i][1] - pts[i][2]]

\* np.diff(pts, axis=1): second column minus first column, y - x.
DiffXY(pts) == [i \in DOMAIN pts |-> pts[i][2] - pts[i][1]]

(***************************************************************************)
(* _order_corners_robust (crop.py)                                         *)
(***************************************************************************)
ValueError == "ValueError"

order_corners_swapped(pts) ==
    IF Len(pts) # 4 THEN ValueError
    ELSE <<pts[ArgMax(SumXY(pts))], pts[ArgMin(DiffXY(pts))],
           pts[ArgMin(SumXY(pts))], pts[ArgMax(DiffXY(pts))]>>

order_corners_robust(pts) ==
    IF Len(pts) # 4 THEN ValueError
    ELSE <<pts[ArgMin(SumXY(pts))], pts[ArgMin(DiffXY(pts))],
           pts[ArgMax(SumXY(pts))], pts[ArgMax(DiffXY(pts))]>>

(***************************************************************************)
(* Geometry vocabulary of the properties                                   *)
(***************************************************************************)
Cross(a, b, c) == (b[1] - a[1]) * (c[2] - a[2]) - (b[2] - a[2]) * (c[1] - a[1])

\* p lies in the closed triangle a b c (degenerate triangles included).
InTriangle(p, a, b, c) ==
    \/ Cross(a, b, p) >= 0 /\ Cross(b, c, p) >= 0 /\ Cross(c, a, p) >= 0
    \/ Cross(a, b, p) <= 0 /\ Cross(b, c, p) <= 0 /\ Cross(c, a, p) <= 0

\* The four points are the vertices of a convex quadrilateral: none of them
\* lies in the closed triangle of the other three.
ConvexQuad(pts) ==
    /\ Len(pts) = 4
    /\ \A i \in 1..4 :
          LET o == CHOOSE s \in [1..3 -> (1..4) \ {i}] :
                       s[1] < s[2] /\ s[2] < s[3]
          IN  ~InTriangle(pts[i], pts[o[1]], pts[o[2]], pts[o[3]])

PairwiseDistinct(s) == \A i, j \in DOMAIN s : i # j => s[i] # s[j]

SeqRange(s) == {s[i] : i \in DOMAIN s}

(***************************************************************************)
(* Specification SpecOrder: _order_corners_robust on every list of 4 grid  *)
(* points, and on one list of 3 and one of 5 points.                       *)
(***************************************************************************)
\* No pipeline run is in progress.
IdlePipe ==
    /\ pc = "idle"
    /\ detections = <<>>
    /\ emblem = NoPoint
    /\ corners = <<>>
    /\ ordered = <<>>
    /\ warped = <<0, 0>>
    /\ cropped_image_path = Pending
    /\ files = <<>>
    /\ cropCalls = 0
    /\ ocrCalls = 0
    /\ raised = NoRaise
    /\ sys_modules = NoModules
    /\ accesses = {}

WrongSized == {[i \in 1..n |-> <<i % (MaxCoord + 1), 0>>] : n \in {3, 5}}

InitOrder ==
    /\ input \in [1..4 -> Points] \cup WrongSized
    /\ output = Pending
    /\ called = FALSE
    /\ IdlePipe

OrderCorners ==
    /\ ~called
    /\ Len(input) = 4
    /\ output' = order_corners_robust(input)
    /\ called' = TRUE
    /\ UNCHANGED <<input, pipeVars, procVars>>

OrderCornersRaise ==
    /\ ~called
    /\ Len(input) # 4
    /\ output' = order_corners_robust(input)
    /\ called' = TRUE
    /\ UNCHANGED <<input, pipeVars, procVars>>

NextOrder == OrderCorners \/ OrderCornersRaise

SpecOrder == InitOrder /\ [][NextOrder]_vars

\* C1: for 4 points forming a convex quadrilateral, the returned tl has the
\* minimum x+y and the returned br the maximum x+y of the 4 input points.
C1_SumExtremes ==
    (called /\ ConvexQuad(input)) =>
        /\ \A i \in 1..4 : output[1][1] + output[1][2] <= input[i][1] + input[i][2]
        /\ \A i \in 1..4 : output[3][1] + output[3][2] >= input[i][1] + input[i][2]

C1_Witness ==
    /\ called
    /\ ConvexQuad(input)
    /\ input = <<<<2, 3>>, <<0, 1>>, <<3, 1>>, <<1, 0>>>>
    /\ output[1] = <<0, 1>> /\ output[3] = <<2, 3>>

\* C2 as stated: with d = x - y, the returned tr is the point with the
\* minimum d and the returned bl the point with the maximum d.
C2_AsStated ==
    (called /\ Len(input) = 4) =>
        /\ \A i \in 1..4 : output[2][1] - output[2][2] <= input[i][1] - input[i][2]
        /\ \A i \in 1..4 : output[4][1] - output[4][2] >= input[i][1] - input[i][2]

\* C2 amended: the code differences are y - x, so the returned tr is the
\* first input point with the maximum x - y and the returned bl the first
\* input point with the minimum x - y.
C2_DiffExtremes ==
    (called /\ Len(input) = 4) =>
        /\ \E i \in 1..4 :
              /\ output[2] = input[i]
              /\ \A j \in 1..4 : input[i][1] - input[i][2] >= input[j][1] - input[j][2]
              /\ \A j \in 1..(i - 1) : input[j][1] - input[j][2] < input[i][1] - input[i][2]
        /\ \E i \in 1..4 :
              /\ output[4] = input[i]
              /\ \A j \in 1..4 : input[i][1] - input[i][2] <= input[j][1] - input[j][2]
              /\ \A j \in 1..(i - 1) : input[j][1] - input[j][2] > input[i][1] - input[i][2]

C2_Witness ==
    /\ input = <<<<0, 0>>, <<3, 0>>, <<3, 2>>, <<0, 2>>>>
    /\ called
    /\ output[2] = <<3, 0>>
    /\ output[4] = <<0, 2>>

\* C3: for 4 pairwise-distinct points forming a convex quadrilateral the
\* result is a permutation of the input: its four points are pairwise
\* distinct and no input point is dropped.
C3_Permutation ==
    (called /\ ConvexQuad(input) /\ PairwiseDistinct(input)) =>
        /\ PairwiseDistinct(output)
        /\ SeqRange(output) = SeqRange(input)

(***************************************************************************)
(* Corner completion of crop_cccd: the 4th corner from exactly 3.          *)
(***************************************************************************)
\* Squared length of a - b; np.hypot is increasing in it.
DistSq(a, b) == (a[1] - b[1]) * (a[1] - b[1]) + (a[2] - b[2]) * (a[2] - b[2])

\* The pairs (i, j) of `for i in range(3) for j in range(i + 1, 3)`, 1-based.
IndexPairs == <<<<1, 2>>, <<1, 3>>, <<2, 3>>>>

FourthCornerShortest(pts) ==
    LET dists == [n \in 1..3 |-> DistSq(pts[IndexPairs[n][1]], pts[IndexPairs[n][2]])]
        n == ArgMin(dists)
        i == IndexPairs[n][1]
        j == IndexPairs[n][2]
        k == CHOOSE m \in (1..3) \ {i, j} : TRUE
    IN  <<pts[i][1] + pts[j][1] - pts[k][1], pts[i][2] + pts[j][2] - pts[k][2]>>

\* max(dists, key=...) keeps the first longest pair; k is the index left over.
FourthCorner(pts) ==
    LET dists == [n \in 1..3 |-> DistSq(pts[IndexPairs[n][1]], pts[IndexPairs[n][2]])]
        n == ArgMax(dists)
        i == IndexPairs[n][1]
        j == IndexPairs[n][2]
        k == CHOOSE m \in (1..3) \ {i, j} : TRUE
    IN  <<pts[i][1] + pts[j][1] - pts[k][1], pts[i][2] + pts[j][2] - pts[k][2]>>

(***************************************************************************)
(* Specification SpecComplete: corner completion on every list of 3 grid   *)
(* points.                                                                 *)
(***************************************************************************)
InitComplete ==
    /\ input \in [1..3 -> Points]
    /\ output = Pending
    /\ called = FALSE
    /\ IdlePipe

CompleteCorner ==
    /\ ~called
    /\ output' = FourthCorner(input)
    /\ called' = TRUE
    /\ UNCHANGED <<input, pipeVars, procVars>>

NextComplete == CompleteCorner

SpecComplete == InitComplete /\ [][NextComplete]_vars

Dot(a, b, c) == (a[1] - c[1]) * (b[1] - c[1]) + (a[2] - c[2]) * (b[2] - c[2])

\* The three points are corners of a non-degenerate rectangle with the
\* right angle at index k.
RightAngleAt(pts, k) ==
    \E i, j \in (1..3) \ {k} :
        /\ i # j
        /\ pts[i] # pts[k] /\ pts[j] # pts[k]
        /\ Dot(pts[i], pts[j], pts[k]) = 0

\* C7: the synthesized corner is p_i + p_j - p_k for a pair (i, j) at the
\* largest pairwise distance and the remaining corner k; for 3 corners of a
\* non-degenerate rectangle, in any order, it is the rectangle's missing
\* corner (the corner opposite the right angle).
C7_Completion ==
    called =>
        /\ \E i, j, k \in 1..3 :
              /\ {i, j, k} = 1..3
              /\ DistSq(input[i], input[j]) >= DistSq(input[i], input[k])
              /\ DistSq(input[i], input[j]) >= DistSq(input[j], input[k])
              /\ output = <<input[i][1] + input[j][1] - input[k][1],
                            input[i][2] + input[j][2] - input[k][2]>>
        /\ \A i, j, k \in 1..3 :
              ({i, j, k} = 1..3 /\ RightAngleAt(input, k)) =>
                  output = <<input[i][1] + input[j][1] - input[k][1],
                             input[i][2] + input[j][2] - input[k][2]>>

C7_Witness ==
    /\ called
    /\ input = <<<<0, 0>>, <<2, 0>>, <<2, 1>>>>
    /\ RightAngleAt(input, 2)
    /\ output = <<0, 1>>

(***************************************************************************)
(* clamp_bbox and pad_bbox (ocr.py).  Coordinates are fixed-point numbers  *)
(* in units of 1/Unit pixel, so that the 0.04 padding of a box whose sides *)
(* are multiples of half a pixel is exact.                                 *)
(***************************************************************************)
Unit == 50

Min2(a, b) == IF a < b THEN a ELSE b
Max2(a, b) == IF a > b THEN a ELSE b

\* dtype=np.int32 conversion of a non-negative float: truncation.
ToInt32(v) == v \div Unit

clamp_bbox(xyxy, width, height) ==
    LET x1 == Max2(0, Min2(xyxy[1], (width - 1) * Unit))
        y1 == Max2(0, Min2(xyxy[2], (height - 1) * Unit))
        x2 == Max2(0, Min2(xyxy[3], (width - 1) * Unit))
        y2 == Max2(0, Min2(xyxy[4], (height - 1) * Unit))
        x2f == IF x2 <= x1 THEN Min2((width - 1) * Unit, x1 + Unit) ELSE x2
        y2f == IF y2 <= y1 THEN Min2((height - 1) * Unit, y1 + Unit) ELSE y2
    IN  <<ToInt32(x1), ToInt32(y1), ToInt32(x2f), ToInt32(y2f)>>

\* pad_ratio = 0.04 = PadNum / PadDen
PadNum == 4
PadDen == 100

pad_bbox(xyxy, width, height) ==
    LET w == xyxy[3] - xyxy[1]
        h == xyxy[4] - xyxy[2]
        pad_w == (w * PadNum) \div PadDen
        pad_h == (h * PadNum) \div PadDen
    IN  clamp_bbox(<<xyxy[1] - pad_w, xyxy[2] - pad_h,
                     xyxy[3] + pad_w, xyxy[4] + pad_h>>, width, height)

(***************************************************************************)
(* Specification SpecBox: pad_bbox on every box with half-pixel            *)
(* coordinates from one pixel outside the image on each side, in every     *)
(* image of 2..MaxImage pixels a side.                                     *)
(***************************************************************************)
MaxImage == 3

HalfPixels(size) == {(Unit \div 2) * n : n \in (-2)..(2 * size + 2)}

InitBox ==
    /\ \E width, height \in 2..MaxImage :
          \E x1, x2 \in HalfPixels(width), y1, y2 \in HalfPixels(height) :
              /\ x1 <= x2 /\ y1 <= y2
              /\ input = [xyxy |-> <<x1, y1, x2, y2>>, width |-> width, height |-> height]
    /\ output = Pending
    /\ called = FALSE
    /\ IdlePipe

PadAndClampBox ==
    /\ ~called
    /\ output' = pad_bbox(input.xyxy, input.width, input.height)
    /\ called' = TRUE
    /\ UNCHANGED <<input, pipeVars, procVars>>

NextBox == PadAndClampBox

SpecBox == InitBox /\ [][NextBox]_vars

\* C9: for every input box and every image at least 2 pixels wide and high,
\* pad_bbox followed by clamp_bbox returns a box with x2 > x1 and y2 > y1.
C9_PositiveSpan ==
    (called /\ input.width >= 2 /\ input.height >= 2) =>
        /\ output[3] > output[1]
        /\ output[4] > output[2]

(***************************************************************************)
(* _rotate_to_place_point_top_left (crop.py).  The image is its size; the  *)
(* result is the rotation applied (degrees clockwise) and the new size.    *)
(* The landmark is given in half pixels: x = px2 / 2, y = py2 / 2.         *)
(***************************************************************************)
\* px < width / 2.0 and py < height / 2.0, on doubled coordinates.
quadrant(px2, py2, width, height) == px2 < width /\ py2 < height

rotate_first_fit_reversed(w, h, x2, y2) ==
    IF quadrant(x2, y2, w, h) THEN [rot |-> 0, width |-> w, height |-> h]
    ELSE IF quadrant(y2, 2 * w - x2, h, w) THEN [rot |-> 270, width |-> h, height |-> w]
    ELSE IF quadrant(2 * w - x2, 2 * h - y2, w, h) THEN [rot |-> 180, width |-> w, height |-> h]
    ELSE [rot |-> 90, width |-> h, height |-> w]

rotate_to_place_point_top_left(w, h, x2, y2) ==
    IF quadrant(x2, y2, w, h) THEN [rot |-> 0, width |-> w, height |-> h]
    ELSE IF quadrant(2 * h - y2, x2, h, w) THEN [rot |-> 90, width |-> h, height |-> w]
    ELSE IF quadrant(2 * w - x2, 2 * h - y2, w, h) THEN [rot |-> 180, width |-> w, height |-> h]
    ELSE [rot |-> 270, width |-> h, height |-> w]

(***************************************************************************)
(* Specification SpecRotate: orientation normalization for every image of  *)
(* 1..MaxSide pixels a side and every landmark on the half-pixel grid from *)
(* one pixel outside the image.                                            *)
(***************************************************************************)
MaxSide == 4

InitRotate ==
    /\ \E w, h \in 1..MaxSide :
          \E x2 \in (-2)..(2 * w + 2), y2 \in (-2)..(2 * h + 2) :
              input = [w |-> w, h |-> h, x2 |-> x2, y2 |-> y2]
    /\ output = Pending
    /\ called = FALSE
    /\ IdlePipe

RotateToTopLeft ==
    /\ ~called
    /\ output' = rotate_to_place_point_top_left(input.w, input.h, input.x2, input.y2)
    /\ called' = TRUE
    /\ UNCHANGED <<input, pipeVars, procVars>>

NextRotate == RotateToTopLeft

SpecRotate == InitRotate /\ [][NextRotate]_vars

\* The landmark (doubled coordinates) in the frame of the image rotated by
\* rot degrees clockwise, and whether it is in that frame's top-left quadrant.
LandmarkIn(rot, w, h, x2, y2) ==
    CASE rot = 0   -> <<x2, y2>>
      [] rot = 90  -> <<2 * h - y2, x2>>
      [] rot = 180 -> <<2 * w - x2, 2 * h - y2>>
      [] rot = 270 -> <<y2, 2 * w - x2>>

FrameOf(rot, w, h) == IF rot \in {0, 180} THEN <<w, h>> ELSE <<h, w>>

InTopLeft(rot, w, h, x2, y2) ==
    /\ LandmarkIn(rot, w, h, x2, y2)[1] < FrameOf(rot, w, h)[1]
    /\ LandmarkIn(rot, w, h, x2, y2)[2] < FrameOf(rot, w, h)[2]

\* C10 as stated: for every size and landmark the returned candidate is the
\* first of 0, 90, 180, 270 whose frame has the landmark in its top-left
\* quadrant.
C10_AsStated ==
    called =>
        /\ InTopLeft(output.rot, input.w, input.h, input.x2, input.y2)
        /\ \A r \in {0, 90, 180, 270} :
              r < output.rot => ~InTopLeft(r, input.w, input.h, input.x2, input.y2)

\* C10 amended: the returned candidate is the first of 0, 90, 180 whose frame
\* has the landmark in its top-left quadrant and the 270 candidate when none
\* of the three has; when the landmark is on neither midline (x # w/2 and
\* y # h/2) it lies in the top-left quadrant of the returned image and of no
\* earlier candidate.
C10_FirstFit ==
    called =>
        /\ <<output.width, output.height>> = FrameOf(output.rot, input.w, input.h)
        /\ \A r \in {0, 90, 180, 270} :
              r < output.rot => ~InTopLeft(r, input.w, input.h, input.x2, input.y2)
        /\ output.rot \in {0, 90, 180} =>
              InTopLeft(output.rot, input.w, input.h, input.x2, input.y2)
        /\ output.rot \in {0, 90, 180, 270}
        /\ (input.x2 # input.w /\ input.y2 # input.h) =>
              InTopLeft(output.rot, input.w, input.h, input.x2, input.y2)

C10_Witness ==
    /\ input = [w |-> 4, h |-> 2, x2 |-> 7, y2 |-> 1]
    /\ called
    /\ output.rot = 270
    /\ InTopLeft(270, 4, 2, 7, 1)

(***************************************************************************)
(* _pad_to_aspect (crop.py).  The target aspect is the rational num / den; *)
(* None and non-positive targets are num <= 0.                             *)
(***************************************************************************)
\* Truncation of the non-negative rational n / d.
RoundDown(n, d) == n \div d

\* Python round() of the non-negative rational n / d: half goes to even.
RoundHalfEven(n, d) ==
    LET q == n \div d
        r == n % d
    IN  IF 2 * r < d THEN q
        ELSE IF 2 * r > d THEN q + 1
        ELSE IF q % 2 = 0 THEN q ELSE q + 1

Abs(v) == IF v < 0 THEN -v ELSE v

\* The padding with the odd pixel on the leading side.
pad_to_aspect_leading_extra(w, h, num, den) ==
    LET unpadded == [width |-> w, height |-> h, left |-> 0, right |-> 0, top |-> 0, bottom |-> 0]
        hh == Max2(h, 1)
    IN  IF num <= 0 THEN unpadded
        ELSE IF 1000 * Abs(w * den - num * hh) < hh * den THEN unpadded
        ELSE IF w * den < num * hh
        THEN LET new_w == RoundHalfEven(h * num, den)
                 pad_total == Max2(new_w - w, 0)
                 right == pad_total \div 2
             IN  [unpadded EXCEPT !.width = w + pad_total, !.left = pad_total - right,
                                  !.right = right]
        ELSE LET new_h == RoundHalfEven(w * den, num)
                 pad_total == Max2(new_h - h, 0)
                 bottom == pad_total \div 2
             IN  [unpadded EXCEPT !.height = h + pad_total, !.top = pad_total - bottom,
                                  !.bottom = bottom]

pad_to_aspect(w, h, num, den) ==
    LET unpadded == [width |-> w, height |-> h, left |-> 0, right |-> 0, top |-> 0, bottom |-> 0]
        hh == Max2(h, 1)
    IN  IF num <= 0 THEN unpadded
        ELSE IF 1000 * Abs(w * den - num * hh) < hh * den THEN unpadded
        ELSE IF w * den < num * hh
        THEN LET new_w == RoundHalfEven(h * num, den)
                 pad_total == Max2(new_w - w, 0)
                 left == pad_total \div 2
             IN  [unpadded EXCEPT !.width = w + pad_total, !.left = left,
                                  !.right = pad_total - left]
        ELSE LET new_h == RoundHalfEven(w * den, num)
                 pad_total == Max2(new_h - h, 0)
                 top == pad_total \div 2
             IN  [unpadded EXCEPT !.height = h + pad_total, !.top = top,
                                  !.bottom = pad_total - top]

(***************************************************************************)
(* detect_points (crop.py).  A detector box is [name, conf, xyxy]; conf is *)
(* in tenths.                                                              *)
(***************************************************************************)
CornerNames == {"tren-trai", "tren-phai", "duoi-trai", "duoi-phai",
                "top-left", "top-right", "bottom-left", "bottom-right"}
EmblemNames == {"quoc-huy", "quoc_huy", "huy-hieu", "emblem"}

\* name.lower().replace(" ", "-").replace("_", "-"), tabulated for the class
\* names of the modelled detector.
normalize_label(name) ==
    CASE name = "Top_Left" -> "top-left"
      [] name = "Quoc Huy" -> "quoc-huy"
      [] OTHER -> name

center_of_box(xyxy) == <<(xyxy[1] + xyxy[3]) \div 2, (xyxy[2] + xyxy[4]) \div 2>>

RECURSIVE InsertByConfUnstable(_, _)
InsertByConfUnstable(item, sorted) ==
    IF sorted = <<>> THEN <<item>>
    ELSE IF Head(sorted)[2] > item[2]
         THEN <<Head(sorted)>> \o InsertByConfUnstable(item, Tail(sorted))
         ELSE <<item>> \o sorted

\* Place of a later item in a list sorted by descending confidence: behind
\* every item of greater or equal confidence (list.sort is stable).
RECURSIVE InsertByConf(_, _)
InsertByConf(item, sorted) ==
    IF sorted = <<>> THEN <<item>>
    ELSE IF Head(sorted)[2] >= item[2]
         THEN <<Head(sorted)>> \o InsertByConf(item, Tail(sorted))
         ELSE <<item>> \o sorted

\* corners.sort(key=lambda x: x[1], reverse=True)
RECURSIVE SortByConfDesc(_)
SortByConfDesc(s) ==
    IF s = <<>> THEN <<>>
    ELSE InsertByConf(s[Len(s)], SortByConfDesc(SubSeq(s, 1, Len(s) - 1)))

\* The loop over result.boxes; acc is [corners, emblem].
RECURSIVE detect_loop(_, _, _)
detect_loop(boxes, thres, acc) ==
    IF boxes = <<>> THEN acc
    ELSE LET box == Head(boxes)
             name == normalize_label(box.name)
             center == center_of_box(box.xyxy)
             next == IF box.conf < thres THEN acc
                     ELSE IF name \in CornerNames
                     THEN [acc EXCEPT !.corners = Append(@, <<center, box.conf>>)]
                     ELSE IF name \in EmblemNames
                     THEN [acc EXCEPT !.emblem = center]
                     ELSE acc
         IN  detect_loop(Tail(boxes), thres, next)

detect_points(boxes, thres) ==
    LET found == detect_loop(boxes, thres, [corners |-> <<>>, emblem |-> NoPoint])
        best == IF Len(found.corners) > 4
                THEN SubSeq(SortByConfDesc(found.corners), 1, 4)
                ELSE found.corners
    IN  [emblem |-> found.emblem, corners |-> [i \in 1..Len(best) |-> best[i][1]]]

(***************************************************************************)
(* crop_cccd (crop.py) and run_pipeline (pipeline-ocr-cccd.py)             *)
(***************************************************************************)
MaxDet == 5          \* boxes reported by the corner detector
MaxWarp == 2         \* sides of the warped image range over 1..MaxWarp

conf_thres == 3      \* 0.3 in tenths
AspectNum == 1585    \* aspect = 1.585
AspectDen == 1000

ImagePath   == "card.jpg"
CroppedPath == "card_cropped.jpg"     \* f"{root}_cropped{ext or '.jpg'}"
OutputJson  == "output.json"
Paths       == {ImagePath, CroppedPath, OutputJson}

\* The i-th box of the detector output; centres differ from box to box.
BoxAt(i) == <<4 * i, 2 * ((i * i) % 3), 4 * i + 2, 2 * ((i * i) % 3) + 2>>

DetAlphabet ==
    {[name |-> "Top_Left", conf |-> c] : c \in 2..4}
        \cup {[name |-> "Quoc Huy", conf |-> c] : c \in 2..3}
        \cup {[name |-> "face", conf |-> 4]}

\* The detector output made of the n class/confidence pairs a.
Boxes(n, a) == [i \in 1..n |-> [name |-> a[i].name, conf |-> a[i].conf, xyxy |-> BoxAt(i)]]

\* An exception leaves run_pipeline: neither stage nor orchestrator catches.
Raise(where, exc, msg) ==
    /\ pc' = "Failed"
    /\ raised' = <<where, exc, msg>>

InsufficientCornersBelowTwo(c) == Len(c) < 2

\* if len(corners) < 3
InsufficientCorners(c) == Len(c) < 3

\* run_pipeline at t0: paths resolved and both stage functions loaded.  The
\* input image is a readable image, an unreadable file or missing.
InitPipe ==
    /\ input = <<>>
    /\ output = Pending
    /\ called = FALSE
    /\ pc = "Rectifying"
    /\ detections = <<>>
    /\ emblem = NoPoint
    /\ corners = <<>>
    /\ ordered = <<>>
    /\ warped = <<0, 0>>
    /\ cropped_image_path = Pending
    /\ \E content \in {"image", "garbage", "absent"} :
          files = [p \in Paths |-> IF p = ImagePath THEN content ELSE "absent"]
    /\ cropCalls = 0
    /\ ocrCalls = 0
    /\ raised = NoRaise
    /\ sys_modules = NoModules
    /\ accesses = {}

\* run_pipeline calls crop_cccd; crop_cccd up to cv2.imread.
CropChecks ==
    /\ pc = "Rectifying"
    /\ cropCalls' = cropCalls + 1
    /\ \E yolo_imported \in BOOLEAN :
          IF ~yolo_imported
          THEN Raise("crop_cccd", "RuntimeError", "ultralytics is required")
          ELSE IF files[ImagePath] = "absent"
          THEN Raise("crop_cccd", "FileNotFoundError", ImagePath)
          ELSE IF files[ImagePath] # "image"
          THEN Raise("crop_cccd", "ValueError", "Cannot read image")
          ELSE pc' = "crop_detect" /\ raised' = raised
    /\ UNCHANGED <<geoVars, procVars, detections, emblem, corners, ordered, warped,
                   cropped_image_path, files, ocrCalls>>

\* emblem, corners = detect_points(model, image, ...)
CropDetect ==
    /\ pc = "crop_detect"
    /\ \E n \in 0..MaxDet :
          \E a \in [1..n -> DetAlphabet] :
              LET found == detect_points(Boxes(n, a), conf_thres)
              IN  /\ detections' = Boxes(n, a)
                  /\ emblem' = found.emblem
                  /\ corners' = found.corners
    /\ pc' = "crop_detected"
    /\ UNCHANGED <<geoVars, procVars, ordered, warped, cropped_image_path, files,
                   cropCalls, ocrCalls, raised>>

\* if len(corners) < 3: return None
CropReturnNone ==
    /\ pc = "crop_detected"
    /\ InsufficientCorners(corners)
    /\ cropped_image_path' = NoneVal
    /\ pc' = "crop_returned"
    /\ UNCHANGED <<geoVars, procVars, detections, emblem, corners, ordered, warped,
                   files, cropCalls, ocrCalls, raised>>

\* Corner completion, ordering, inflation and perspective warp.  The edge
\* lengths of the inflated quadrilateral are square roots, so the size of the
\* warped image is any size within the bound; cv2 may also reject the warp.
CropWarp ==
    /\ pc = "crop_detected"
    /\ ~InsufficientCorners(corners)
    /\ LET completed == IF Len(corners) = 3
                        THEN Append(corners, FourthCorner(corners))
                        ELSE corners
       IN  IF Len(completed) # 4
           THEN /\ Raise("crop_cccd", ValueError, "points must contain exactly 4 elements")
                /\ UNCHANGED <<corners, ordered, warped>>
           ELSE /\ corners' = completed
                /\ ordered' = order_corners_robust(completed)
                /\ \E cv2_ok \in BOOLEAN :
                      IF cv2_ok
                      THEN /\ \E w, h \in 1..MaxWarp : warped' = <<w, h>>
                           /\ pc' = "crop_warped"
                           /\ raised' = raised
                      ELSE /\ Raise("crop_cccd", "cv2.error", "warpPerspective")
                           /\ warped' = warped
    /\ UNCHANGED <<geoVars, procVars, detections, emblem, cropped_image_path, files,
                   cropCalls, ocrCalls>>

\* Top-edge deskew (the top edge of the warped rectangle is horizontal, so
\* no rotation), orientation by the projected emblem, aspect padding and
\* cv2.imwrite.  The projected emblem is any half-pixel position.
CropFinish ==
    /\ pc = "crop_warped"
    /\ \E x2 \in 0..(2 * warped[1]), y2 \in 0..(2 * warped[2]), written \in BOOLEAN :
          LET turned == IF emblem = NoPoint
                        THEN [rot |-> 0, width |-> warped[1], height |-> warped[2]]
                        ELSE rotate_to_place_point_top_left(warped[1], warped[2], x2, y2)
              padded == pad_to_aspect(turned.width, turned.height, AspectNum, AspectDen)
          IN  /\ warped' = <<padded.width, padded.height>>
              /\ IF written
                 THEN /\ files' = [files EXCEPT ![CroppedPath] = "image"]
                      /\ cropped_image_path' = CroppedPath
                      /\ pc' = "crop_returned"
                      /\ raised' = raised
                 ELSE /\ Raise("crop_cccd", "IOError", "Failed to write output image")
                      /\ UNCHANGED <<files, cropped_image_path>>
    /\ UNCHANGED <<geoVars, procVars, detections, emblem, corners, ordered, cropCalls, ocrCalls>>

PipeCheckCropMissing ==
    /\ pc = "crop_returned"
    /\ pc' = "Extracting"
    /\ UNCHANGED <<geoVars, procVars, detections, emblem, corners, ordered, warped,
                   cropped_image_path, files, cropCalls, ocrCalls, raised>>

\* if not cropped_image_path: raise RuntimeError(...)
PipeCheckCrop ==
    /\ pc = "crop_returned"
    /\ IF cropped_image_path = NoneVal
       THEN Raise("run_pipeline", "RuntimeError", "Crop step failed: not enough corners detected")
       ELSE pc' = "Extracting" /\ raised' = raised
    /\ UNCHANGED <<geoVars, procVars, detections, emblem, corners, ordered, warped,
                   cropped_image_path, files, cropCalls, ocrCalls>>

\* run_pipeline calls ocr.run; ocr.run up to the mkdir of the output folder:
\* model loading, detection and recognition either complete or raise.
OcrRun ==
    /\ pc = "Extracting"
    /\ ocrCalls' = ocrCalls + 1
    /\ \E ok \in BOOLEAN :
          IF ok THEN pc' = "ocr_open" /\ raised' = raised
          ELSE Raise("ocr_run", "Exception", "extraction")
    /\ UNCHANGED <<geoVars, procVars, detections, emblem, corners, ordered, warped,
                   cropped_image_path, files, cropCalls>>

\* with open(output_json, "w", ...) as f: the file is created empty.
OcrOpen ==
    /\ pc = "ocr_open"
    /\ \E ok \in BOOLEAN :
          IF ok
          THEN /\ files' = [files EXCEPT ![OutputJson] = "empty"]
               /\ pc' = "ocr_dump"
               /\ raised' = raised
          ELSE /\ Raise("ocr_run", "OSError", "open")
               /\ files' = files
    /\ UNCHANGED <<geoVars, procVars, detections, emblem, corners, ordered, warped,
                   cropped_image_path, cropCalls, ocrCalls>>

\* json.dump(payload, f, ...): on an error what was written so far stays.
OcrDump ==
    /\ pc = "ocr_dump"
    /\ \E ok \in BOOLEAN :
          IF ok
          THEN /\ files' = [files EXCEPT ![OutputJson] = "payload"]
               /\ pc' = "Augmenting"
               /\ raised' = raised
          ELSE /\ Raise("ocr_run", "Exception", "json.dump")
               /\ \E left \in {"empty", "partial"} :
                     files' = [files EXCEPT ![OutputJson] = left]
    /\ UNCHANGED <<geoVars, procVars, detections, emblem, corners, ordered, warped,
                   cropped_image_path, cropCalls, ocrCalls>>

\* if not output_json.exists(): raise ...; payload = json.load(f)
PipeLoad ==
    /\ pc = "Augmenting"
    /\ IF files[OutputJson] = "absent"
       THEN Raise("run_pipeline", "FileNotFoundError", "Expected output JSON not found")
       ELSE \E ok \in BOOLEAN :
               IF ok THEN pc' = "pipe_open" /\ raised' = raised
               ELSE Raise("run_pipeline", "Exception", "json.load")
    /\ UNCHANGED <<geoVars, procVars, detections, emblem, corners, ordered, warped,
                   cropped_image_path, files, cropCalls, ocrCalls>>

\* payload[...] = ...; with output_json.open("w", ...) as f: truncates.
PipeOpen ==
    /\ pc = "pipe_open"
    /\ \E ok \in BOOLEAN :
          IF ok
          THEN /\ files' = [files EXCEPT ![OutputJson] = "empty"]
               /\ pc' = "pipe_dump"
               /\ raised' = raised
          ELSE /\ Raise("run_pipeline", "OSError", "open")
               /\ files' = files
    /\ UNCHANGED <<geoVars, procVars, detections, emblem, corners, ordered, warped,
                   cropped_image_path, cropCalls, ocrCalls>>

\* json.dump(payload, f, ...); return payload
PipeDump ==
    /\ pc = "pipe_dump"
    /\ \E ok \in BOOLEAN :
          IF ok
          THEN /\ files' = [files EXCEPT ![OutputJson] = "augmented"]
               /\ pc' = "Done"
               /\ raised' = raised
          ELSE /\ Raise("run_pipeline", "Exception", "json.dump")
               /\ \E left \in {"empty", "partial"} :
                     files' = [files EXCEPT ![OutputJson] = left]
    /\ UNCHANGED <<geoVars, procVars, detections, emblem, corners, ordered, warped,
                   cropped_image_path, cropCalls, ocrCalls>>

Next ==
    \/ CropChecks
    \/ CropDetect
    \/ CropReturnNone
    \/ CropWarp
    \/ CropFinish
    \/ PipeCheckCrop
    \/ OcrRun
    \/ OcrOpen
    \/ OcrDump
    \/ PipeLoad
    \/ PipeOpen
    \/ PipeDump

Init == InitPipe

Spec == Init /\ [][Next]_vars

(***************************************************************************)
(* Properties of crop_cccd and run_pipeline                                *)
(***************************************************************************)
\* Indices of the detector boxes that are corner-labelled and pass the
\* confidence threshold.
PassingCorners(boxes) ==
    {i \in DOMAIN boxes :
        /\ boxes[i].conf >= conf_thres
        /\ normalize_label(boxes[i].name) \in CornerNames}

\* crop_cccd has run its detector.
Detected ==
    /\ pc \notin {"Rectifying", "crop_detect"}
    /\ raised \notin {<<"crop_cccd", "RuntimeError", "ultralytics is required">>,
                      <<"crop_cccd", "FileNotFoundError", ImagePath>>,
                      <<"crop_cccd", "ValueError", "Cannot read image">>}

FewCorners == Detected /\ Cardinality(PassingCorners(detections)) < 3

\* C4: when fewer than 3 corner detections pass the threshold, crop_cccd
\* returns None, raises no exception and writes no output image file.
C4_NoResult ==
    /\ [](FewCorners =>
            /\ files[CroppedPath] = "absent"
            /\ raised[1] # "crop_cccd"
            /\ pc # "crop_warped"
            /\ pc # "crop_detected" => cropped_image_path = NoneVal)
    /\ [][(FewCorners /\ pc = "crop_detected") =>
            /\ pc' = "crop_returned"
            /\ cropped_image_path' = NoneVal
            /\ files' = files]_vars

C4_Witness ==
    /\ pc = "crop_returned"
    /\ Len(detections) = 4
    /\ Cardinality(PassingCorners(detections)) = 2
    /\ cropped_image_path = NoneVal
    /\ files[CroppedPath] = "absent"

\* C5: rectification is invoked first and exactly once, extraction at most
\* once and only after rectification returned a result; when rectification
\* yields no result the run ends Failed, with the error raised to the caller,
\* extraction never invoked and rectification not retried.
C5_Sequencing ==
    /\ [](/\ cropCalls <= 1
          /\ ocrCalls <= 1
          /\ pc \in {"Done", "Failed"} => cropCalls = 1
          /\ ocrCalls = 1 => (cropCalls = 1 /\ cropped_image_path = CroppedPath)
          /\ cropped_image_path = NoneVal =>
                /\ ocrCalls = 0
                /\ pc \in {"crop_returned", "Failed"}
                /\ pc = "Failed" => raised[1] = "run_pipeline")
    /\ [][/\ (cropped_image_path = NoneVal /\ pc = "crop_returned") => pc' = "Failed"
          /\ pc \in {"Done", "Failed"} => (cropCalls' = cropCalls /\ ocrCalls' = ocrCalls)]_vars

C5_Witness ==
    /\ pc = "Failed"
    /\ cropped_image_path = NoneVal
    /\ raised = <<"run_pipeline", "RuntimeError", "Crop step failed: not enough corners detected">>
    /\ cropCalls = 1
    /\ ocrCalls = 0

\* C6: whenever a run ends in failure, no output payload file and no partial
\* or corrupt output file of that run exists; an output payload exists only
\* after both stages succeeded.
C6_NoOutputOnFailure ==
    /\ pc = "Failed" => files[OutputJson] = "absent"
    /\ files[OutputJson] \in {"payload", "augmented"} =>
          (cropped_image_path = CroppedPath /\ ocrCalls = 1)

\* C8: with more than 4 passing corner detections exactly 4 are kept, each
\* with confidence at least that of every discarded one and, at equal
\* confidence, reported earlier than the discarded one; with 4 or fewer all
\* are kept.
C8_Selection ==
    pc = "crop_detected" =>
        LET passing == PassingCorners(detections)
            centre(i) == center_of_box(detections[i].xyxy)
            kept == {i \in passing : centre(i) \in SeqRange(corners)}
        IN  /\ SeqRange(corners) \subseteq {centre(i) : i \in passing}
            /\ Len(corners) = Cardinality(kept)
            /\ Cardinality(passing) <= 4 => kept = passing
            /\ Cardinality(passing) > 4 =>
                  /\ Cardinality(kept) = 4
                  /\ \A i \in kept, j \in passing \ kept :
                        \/ detections[i].conf > detections[j].conf
                        \/ /\ detections[i].conf = detections[j].conf
                           /\ i < j

C8_Witness ==
    /\ pc = "crop_detected"
    /\ Len(detections) = 5
    /\ PassingCorners(detections) = 1..5
    /\ detections[1].conf = 3 /\ detections[2].conf = 3
    /\ detections[3].conf = 4 /\ detections[4].conf = 3 /\ detections[5].conf = 4
    /\ SeqRange(corners) = {center_of_box(BoxAt(i)) : i \in {1, 2, 3, 5}}

(***************************************************************************)
(* The aspect padding on its own: _pad_to_aspect applied to one image of   *)
(* w x h pixels and one target aspect.  The input is                       *)
(* [w, h, num, den]; the output is the padded size with its four borders.  *)
(***************************************************************************)
MaxPadSide == 12

\* The target aspects: disabled (None or <= 0), 2.0, 1.5, the card's 1.585, 0.5.
TargetAspects == {<<0, 1>>, <<2, 1>>, <<3, 2>>, <<AspectNum, AspectDen>>, <<1, 2>>}

\* The sizes: every small image, and the 100 x 40 and 100 x 50 images.
PadSizes == ((1..MaxPadSide) \X (1..MaxPadSide)) \cup {<<100, 40>>, <<100, 50>>}

InitPad ==
    /\ \E s \in PadSizes : \E t \in TargetAspects :
          input = [w |-> s[1], h |-> s[2], num |-> t[1], den |-> t[2]]
    /\ output = Pending
    /\ called = FALSE
    /\ IdlePipe

PadToAspect ==
    /\ ~called
    /\ output' = pad_to_aspect(input.w, input.h, input.num, input.den)
    /\ called' = TRUE
    /\ UNCHANGED <<input, pipeVars, procVars>>

NextPad == PadToAspect

SpecPad == InitPad /\ [][NextPad]_vars

\* |w / h - num / den| < 0.001
WithinTolerance(w, h, num, den) == 1000 * Abs(w * den - num * h) < h * den

\* C11: with a configured target aspect the padding never reduces a
\* dimension and changes at most one of them; an image already within the
\* tolerance is returned unchanged (100 x 50 with target 2.0); otherwise the
\* padded dimension gets floor(total / 2) pixels on the leading side and the
\* rest on the trailing side, so that an odd pixel is trailing (100 x 40 with
\* target 2.0 becomes 100 x 50 with 5 above and 5 below).
C11_PadSplit ==
    (called /\ input.num > 0) =>
        LET dw == output.width - input.w
            dh == output.height - input.h
        IN  /\ dw >= 0 /\ dh >= 0
            /\ dw = 0 \/ dh = 0
            /\ WithinTolerance(input.w, input.h, input.num, input.den) =>
                  output = [width |-> input.w, height |-> input.h,
                            left |-> 0, right |-> 0, top |-> 0, bottom |-> 0]
            /\ output.left = dw \div 2 /\ output.right = dw - dw \div 2
            /\ output.top = dh \div 2 /\ output.bottom = dh - dh \div 2
            /\ (input = [w |-> 100, h |-> 50, num |-> 2, den |-> 1]) =>
                  (output.width = 100 /\ output.height = 50)
            /\ (input = [w |-> 100, h |-> 40, num |-> 2, den |-> 1]) =>
                  (output.width = 100 /\ output.height = 50
                     /\ output.top = 5 /\ output.bottom = 5)

\* An odd total has been split: the trailing border is one pixel more.
C11_Witness ==
    /\ called
    /\ input.num > 0
    /\ \/ output.right = output.left + 1
       \/ output.bottom = output.top + 1

\* C12 as stated: for every image and every positive target the returned
\* width / height differs from the target by less than 0.001.
C12_AsStated ==
    (called /\ input.num > 0) =>
        WithinTolerance(output.width, output.height, input.num, input.den)

\* C12: for every image and every positive target the returned image is
\* the input when its aspect is within 0.001 of the target, and otherwise
\* one dimension is kept and the other is the Python-rounded exact value:
\* width = round(height * target), or height = round(width / target), which
\* is within half a pixel of the exact value.
C12_RoundedAspect ==
    (called /\ input.num > 0) =>
        \/ /\ WithinTolerance(input.w, input.h, input.num, input.den)
           /\ output.width = input.w /\ output.height = input.h
        \/ /\ output.height = input.h
           /\ output.width >= input.w
           /\ 2 * Abs(output.width * input.den - output.height * input.num) <= input.den
        \/ /\ output.width = input.w
           /\ output.height >= input.h
           /\ 2 * Abs(output.height * input.num - output.width * input.den) <= input.num

\* A padded image whose aspect is not within 0.001 of the target.
C12_Witness ==
    /\ called
    /\ input.num > 0
    /\ output.width + output.height > input.w + input.h
    /\ ~WithinTolerance(output.width, output.height, input.num, input.den)

(***************************************************************************)
(* The extraction stage (ocr.py).  A text is a sequence of characters.  A  *)
(* confidence is a whole number of ten-thousandths, or the quotient        *)
(* [n, d] of a sum of such numbers by a count (sum(...) / len(...)).        *)
(***************************************************************************)
DESIRED_FIELDS ==
    <<"id", "name", "dob", "gender", "nationality", "origin_place",
      "current_place", "expire_date", "issue_date">>

MULTILINE_FIELDS == {"name", "origin_place", "current_place"}

\* ocr_conf_threshold = 0.4
ocr_conf_threshold == 4000

Digits == {"0", "1", "2", "3", "4", "5", "6", "7", "8", "9"}
Letters == {"a", "b", "c", "d", "e", "f"}
SpecialChars == {"?", "!", "@", "#", "$", "%"}

\* str.count of one character
RECURSIVE Count(_, _)
Count(text, c) ==
    IF text = <<>> THEN 0
    ELSE (IF Head(text) = c THEN 1 ELSE 0) + Count(Tail(text), c)

RECURSIVE lstrip(_)
lstrip(text) ==
    IF text # <<>> /\ Head(text) = " " THEN lstrip(Tail(text)) ELSE text

RECURSIVE rstrip(_)
rstrip(text) ==
    IF text # <<>> /\ text[Len(text)] = " "
    THEN rstrip(SubSeq(text, 1, Len(text) - 1))
    ELSE text

strip(text) == rstrip(lstrip(text))

\* " ".join(texts)
RECURSIVE join(_)
join(texts) ==
    IF texts = <<>> THEN <<>>
    ELSE IF Len(texts) = 1 THEN texts[1]
    ELSE texts[1] \o <<" ">> \o join(Tail(texts))

\* The result of the recognizer on one crop: a pair (text, probability), a
\* text alone, None, or an exception.  isNone marks the text None.
NoText == <<>>

estimate_confidence(text, isNone) ==
    IF isNone \/ text = NoText \/ Len(strip(text)) = 0 THEN 0
    ELSE LET chars == {text[i] : i \in 1..Len(text)}
             spaces == Count(text, " ")
             base == 5000
                     + (IF chars \cap Digits # {} THEN 1000 ELSE 0)
                     + (IF chars \cap Letters # {} THEN 1000 ELSE 0)
                     + (IF Len(text) > 3 THEN 1000 ELSE 0)
                     + (IF chars \cap SpecialChars = {} THEN 1000 ELSE 0)
                     + (IF spaces <= Len(text) \div 4 THEN 1000 ELSE 0)
                     - (IF Count(text, "?") > 0 THEN 2000 ELSE 0)
                     - (IF Len(text) < 2 THEN 2000 ELSE 0)
                     - (IF spaces > Len(text) \div 2 THEN 1000 ELSE 0)
         IN  Max2(0, Min2(10000, base))

\* predict_with_confidence without its except clause: the exception of the
\* recognizer leaves the function.
predict_with_confidence_uncaught(result) ==
    IF result.kind = "raise"
    THEN [text |-> NoText, isNone |-> FALSE, confidence |-> 0, raised |-> TRUE]
    ELSE IF result.kind = "pair"
    THEN [text |-> result.text, isNone |-> FALSE, confidence |-> result.prob,
          raised |-> FALSE]
    ELSE [text |-> result.text, isNone |-> result.kind = "none",
          confidence |-> estimate_confidence(result.text, result.kind = "none"),
          raised |-> FALSE]

predict_with_confidence(result) ==
    IF result.kind = "raise"
    THEN [text |-> NoText, isNone |-> FALSE, confidence |-> 0, raised |-> FALSE]
    ELSE IF result.kind = "pair"
    THEN [text |-> result.text, isNone |-> FALSE, confidence |-> result.prob,
          raised |-> FALSE]
    ELSE [text |-> result.text, isNone |-> result.kind = "none",
          confidence |-> estimate_confidence(result.text, result.kind = "none"),
          raised |-> FALSE]

\* The test that lets the empty text through.
TruthyOrEmpty(r) == ~r.isNone

\* The truth value of a text: None and "" are false.
Truthy(r) == ~r.isNone /\ r.text # NoText

\* The size of the rectified image read by the extraction stage.
CardWidth == 40
CardHeight == 60

DesiredSet == {DESIRED_FIELDS[i] : i \in 1..Len(DESIRED_FIELDS)}

\* A confidence that is one number.
Exactly(n) == [n |-> n, d |-> 1]

\* round(q, 3), in thousandths
Round3(q) == RoundHalfEven(q.n, 10 * q.d)

RECURSIVE SumSeq(_)
SumSeq(s) == IF s = <<>> THEN 0 ELSE Head(s) + SumSeq(Tail(s))

\* The single-line rule that keeps whatever box comes last.
keep_last(items, item) == <<item>>

\* The single-line rule: the first box, then any box that scores strictly
\* more than the one kept.
keep_best(items, item) ==
    IF items = <<>> \/ item.conf > items[1].conf THEN <<item>> ELSE items

\* The first loop of run, over the first n detector boxes.  A retained item
\* is [bbox, conf, idx]: the padded box, the detector score, and the place
\* of the box in the detector's output (which names its crop).
RECURSIVE collect(_, _)
collect(boxes, n) ==
    IF n = 0
    THEN [field_to_bboxes |-> [k \in DesiredSet |-> <<>>],
          field_to_confidence |-> [k \in DesiredSet |-> Exactly(0)],
          order |-> DESIRED_FIELDS]
    ELSE LET prev == collect(boxes, n - 1)
             box == boxes[n]
             label == box.label
             known == label \in DOMAIN prev.field_to_bboxes
             reg == IF known THEN prev
                    ELSE [field_to_bboxes |-> prev.field_to_bboxes @@ (label :> <<>>),
                          field_to_confidence |->
                              prev.field_to_confidence @@ (label :> Exactly(0)),
                          order |-> Append(prev.order, label)]
             item == [bbox |-> pad_bbox(box.xyxy, CardWidth, CardHeight),
                      conf |-> box.conf, idx |-> n]
             old == reg.field_to_bboxes[label]
             kept == keep_best(old, item)
         IN  IF box.conf <= ocr_conf_threshold THEN reg
             ELSE IF label \in MULTILINE_FIELDS
             THEN [reg EXCEPT !.field_to_bboxes[label] = Append(old, item)]
             ELSE IF kept # old
             THEN [reg EXCEPT !.field_to_bboxes[label] = kept,
                              !.field_to_confidence[label] = Exactly(box.conf)]
             ELSE reg

\* The items left in the order of the detector.
InsertByTopUnsorted(sorted, item) == Append(sorted, item)

\* sorted(bbox_items, key = y1 of the padded box): stable, ascending.
InsertByTop(sorted, item) ==
    LET k == Cardinality({i \in 1..Len(sorted) : sorted[i].bbox[2] <= item.bbox[2]})
    IN  SubSeq(sorted, 1, k) \o <<item>> \o SubSeq(sorted, k + 1, Len(sorted))

RECURSIVE SortByTop(_)
SortByTop(items) ==
    IF items = <<>> THEN <<>>
    ELSE InsertByTop(SortByTop(SubSeq(items, 1, Len(items) - 1)), items[Len(items)])

\* The inner loop of run over the first n sorted items of one label.  A crop
\* of height 0 raises ZeroDivisionError at 32 / crop_gray.height.
RECURSIVE read_boxes(_, _, _)
read_boxes(items, boxes, n) ==
    IF n = 0
    THEN [texts |-> <<>>, yolo_confidences |-> <<>>, ocr_confidences |-> <<>>,
          recognized |-> <<>>, error |-> ""]
    ELSE LET prev == read_boxes(items, boxes, n - 1)
             item == items[n]
             r == predict_with_confidence(boxes[item.idx].result)
             called_ocr == [prev EXCEPT !.recognized = Append(@, item.idx)]
         IN  IF prev.error # "" THEN prev
             ELSE IF item.bbox[4] - item.bbox[2] = 0
             THEN [prev EXCEPT !.error = "ZeroDivisionError"]
             ELSE IF r.raised THEN [called_ocr EXCEPT !.error = "Exception"]
             ELSE IF Truthy(r)
             THEN [called_ocr EXCEPT !.texts = Append(@, r.text),
                                     !.yolo_confidences = Append(@, item.conf),
                                     !.ocr_confidences = Append(@, r.confidence)]
             ELSE called_ocr

\* The outer loop of run over the first n labels of the dictionary, which
\* iterates in insertion order: the schema fields, then the other labels as
\* they were met.
RECURSIVE read_fields(_, _, _)
read_fields(c, boxes, n) ==
    IF n = 0
    THEN [field_to_text |-> [k \in DOMAIN c.field_to_bboxes |-> NoText],
          field_to_confidence |-> c.field_to_confidence,
          field_to_ocr_confidence |-> [k \in DOMAIN c.field_to_bboxes |-> Exactly(0)],
          recognized |-> <<>>, error |-> ""]
    ELSE LET prev == read_fields(c, boxes, n - 1)
             label == c.order[n]
             bbox_items == c.field_to_bboxes[label]
             b == read_boxes(SortByTop(bbox_items), boxes, Len(bbox_items))
             read == [prev EXCEPT !.recognized = @ \o b.recognized,
                                  !.error = b.error]
             text == [read EXCEPT !.field_to_text[label] = strip(join(b.texts))]
         IN  IF prev.error # "" \/ bbox_items = <<>> THEN prev
             ELSE IF b.error # "" THEN read
             ELSE IF label \in MULTILINE_FIELDS /\ b.yolo_confidences # <<>>
             THEN [text EXCEPT
                      !.field_to_confidence[label] =
                          [n |-> SumSeq(b.yolo_confidences), d |-> Len(b.yolo_confidences)],
                      !.field_to_ocr_confidence[label] =
                          [n |-> SumSeq(b.ocr_confidences), d |-> Len(b.ocr_confidences)]]
             ELSE IF b.yolo_confidences # <<>>
             THEN [text EXCEPT
                      !.field_to_ocr_confidence[label] = Exactly(b.ocr_confidences[1])]
             ELSE text

\* The payload of run: the schema fields only, confidences in thousandths.
make_payload(f) ==
    [data |-> [k \in DesiredSet |-> f.field_to_text[k]],
     yolo_confidence |-> [k \in DesiredSet |-> Round3(f.field_to_confidence[k])],
     ocr_confidence |-> [k \in DesiredSet |-> Round3(f.field_to_ocr_confidence[k])]]

\* run, from the detector's boxes to the payload.  With an error the
\* function is left by the exception and there is no payload.
run(boxes) ==
    LET c == collect(boxes, Len(boxes))
        f == read_fields(c, boxes, Len(c.order))
    IN  [field_to_bboxes |-> c.field_to_bboxes,
         field_to_text |-> f.field_to_text,
         field_to_confidence |-> f.field_to_confidence,
         field_to_ocr_confidence |-> f.field_to_ocr_confidence,
         recognized |-> f.recognized,
         error |-> f.error,
         payload |-> make_payload(f)]

(***************************************************************************)
(* Specification SpecOcr: run on every sequence of at most MaxBoxes        *)
(* detector boxes.  A box is [label, conf, xyxy, result]: its class name,  *)
(* its score, its corners in 1 / Unit pixels and what the recognizer does   *)
(* on its crop.                                                            *)
(***************************************************************************)
MaxBoxes == 2

LowScore == 5000
HighScore == 8766

\* y from 10 to 14: the padded top is 9.
GeoA == <<2 * Unit, 10 * Unit, 30 * Unit, 14 * Unit>>
\* y from 10.5 to 50.5: the padded top is 8.
GeoB == <<2 * Unit, 10 * Unit + Unit \div 2, 30 * Unit, 50 * Unit + Unit \div 2>>
\* y from 30 to 34: the padded top is 29.
GeoC == <<2 * Unit, 30 * Unit, 30 * Unit, 34 * Unit>>
\* y from 59.5 to 60, on the bottom edge: the clamped box has no height.
GeoE == <<2 * Unit, 59 * Unit + Unit \div 2, 30 * Unit, 60 * Unit>>

Outcomes == {"pair", "text", "blank", "empty", "none", "raise"}

\* The text read on the crop of the i-th box.
BoxText(i) ==
    IF i = 1 THEN <<"a">>
    ELSE IF i = 2 THEN <<"b", "7">>
    ELSE IF i = 3 THEN <<"c", " ", "d", "?">>
    ELSE <<"e", "0", "0", "1", "f">>

Result(outcome, i) ==
    IF outcome = "pair" THEN [kind |-> "pair", text |-> BoxText(i), prob |-> 9123]
    ELSE IF outcome = "text" THEN [kind |-> "text", text |-> BoxText(i), prob |-> 0]
    ELSE IF outcome = "blank" THEN [kind |-> "pair", text |-> <<" ">>, prob |-> 7000]
    ELSE IF outcome = "empty" THEN [kind |-> "pair", text |-> NoText, prob |-> 6000]
    ELSE IF outcome = "none" THEN [kind |-> "none", text |-> NoText, prob |-> 0]
    ELSE [kind |-> "raise", text |-> NoText, prob |-> 0]

OcrAlphabet ==
    {[label |-> l, conf |-> ocr_conf_threshold, xyxy |-> GeoA, outcome |-> "pair"] :
        l \in {"id", "name", "portrait"}}
    \cup {[label |-> "portrait", conf |-> HighScore, xyxy |-> GeoA, outcome |-> o] :
             o \in {"pair", "raise"}}
    \cup {[label |-> "id", conf |-> c, xyxy |-> GeoA, outcome |-> o] :
             c \in {LowScore, HighScore}, o \in Outcomes}
    \cup {[label |-> "id", conf |-> HighScore, xyxy |-> GeoE, outcome |-> "pair"]}
    \cup {[label |-> "name", conf |-> g[1], xyxy |-> g[2], outcome |-> o] :
             g \in {<<LowScore, GeoA>>, <<HighScore, GeoA>>,
                    <<HighScore, GeoB>>, <<LowScore, GeoC>>},
             o \in Outcomes}

OcrBoxes(n, a) ==
    [i \in 1..n |-> [label |-> a[i].label, conf |-> a[i].conf, xyxy |-> a[i].xyxy,
                     result |-> Result(a[i].outcome, i)]]

InitOcr ==
    /\ \E n \in 0..MaxBoxes : \E a \in [1..n -> OcrAlphabet] :
          input = [boxes |-> OcrBoxes(n, a)]
    /\ output = Pending
    /\ called = FALSE
    /\ IdlePipe

RunOcr ==
    /\ ~called
    /\ output' = run(input.boxes)
    /\ called' = TRUE
    /\ UNCHANGED <<input, pipeVars, procVars>>

NextOcr == RunOcr

SpecOcr == InitOcr /\ [][NextOcr]_vars

\* The box yields a text that is not empty and not blank.
YieldsText(box) ==
    LET r == predict_with_confidence(box.result)
    IN  Truthy(r) /\ strip(r.text) # NoText

Qualifies(box) == box.conf > ocr_conf_threshold

\* One occurrence of the text a starts before one occurrence of the text b.
Precedes(a, b, merged) ==
    \E p, q \in 1..Len(merged) :
        /\ p < q
        /\ p + Len(a) - 1 <= Len(merged) /\ SubSeq(merged, p, p + Len(a) - 1) = a
        /\ q + Len(b) - 1 <= Len(merged) /\ SubSeq(merged, q, q + Len(b) - 1) = b

\* C13 as stated: for a multi-line field, whenever two qualifying detector
\* boxes A and B of the field have top edges y(A) < y(B) and both yield a
\* non-empty text, the text of A precedes the text of B in the merged text
\* of the field, whatever the order in which the detector reported them.
C13_AsStated ==
    (called /\ output.error = "") =>
        \A i, j \in 1..Len(input.boxes) :
            LET A == input.boxes[i]
                B == input.boxes[j]
            IN  (/\ A.label \in MULTILINE_FIELDS /\ B.label = A.label
                 /\ Qualifies(A) /\ Qualifies(B)
                 /\ YieldsText(A) /\ YieldsText(B)
                 /\ A.xyxy[2] < B.xyxy[2])
                => Precedes(A.result.text, B.result.text, output.field_to_text[A.label])

\* The top edge the merge sorts on: y1 of the padded, clamped box, in whole
\* pixels.
PaddedTop(box) == pad_bbox(box.xyxy, CardWidth, CardHeight)[2]

\* C13: for a multi-line field, whenever two qualifying detector boxes A
\* and B of the field both yield a non-empty text and the padded top edge of
\* A is above that of B, or the two are equal and A was reported first, the
\* text of A precedes the text of B in the merged text of the field.
C13_PaddedTopOrder ==
    (called /\ output.error = "") =>
        \A i, j \in 1..Len(input.boxes) :
            LET A == input.boxes[i]
                B == input.boxes[j]
            IN  (/\ A.label \in MULTILINE_FIELDS /\ B.label = A.label
                 /\ Qualifies(A) /\ Qualifies(B)
                 /\ YieldsText(A) /\ YieldsText(B)
                 /\ \/ PaddedTop(A) < PaddedTop(B)
                    \/ PaddedTop(A) = PaddedTop(B) /\ i < j)
                => Precedes(A.result.text, B.result.text, output.field_to_text[A.label])

\* Two lines of a multi-line field reported bottom first and merged top
\* first.
C13_Witness ==
    /\ called
    /\ output.error = ""
    /\ \E i, j \in 1..Len(input.boxes) :
          LET A == input.boxes[i]
              B == input.boxes[j]
          IN  /\ j < i
              /\ A.label = "name" /\ B.label = "name"
              /\ Qualifies(A) /\ Qualifies(B)
              /\ YieldsText(A) /\ YieldsText(B)
              /\ A.xyxy[2] < B.xyxy[2] /\ PaddedTop(A) < PaddedTop(B)
              /\ Precedes(A.result.text, B.result.text, output.field_to_text["name"])

\* The places of the qualifying boxes of one label in the detector's output.
QualifyingOf(label) ==
    {i \in 1..Len(input.boxes) :
        input.boxes[i].label = label /\ Qualifies(input.boxes[i])}

\* C14: for a single-line field, after any sequence of detections, at most
\* one box is retained for the label; it is a qualifying box of the label
\* whose score is the maximum among them; the recognizer is invoked on no
\* other box of the label; the text of the field is the text read on that
\* box alone; and the detection-confidence kept for the field is that box's
\* score (reported in the payload rounded to 3 decimals).
C14_SingleBest ==
    called =>
        \A label \in (DOMAIN output.field_to_bboxes) \ MULTILINE_FIELDS :
            LET kept == output.field_to_bboxes[label]
                Q == QualifyingOf(label)
            IN  /\ Len(kept) <= 1
                /\ (Q = {}) <=> (kept = <<>>)
                /\ kept # <<>> =>
                      LET k == kept[1].idx
                          r == predict_with_confidence(input.boxes[k].result)
                      IN  /\ k \in Q
                          /\ kept[1].conf = input.boxes[k].conf
                          /\ \A i \in Q : input.boxes[i].conf <= input.boxes[k].conf
                          /\ \A n \in 1..Len(output.recognized) :
                                input.boxes[output.recognized[n]].label = label
                                    => output.recognized[n] = k
                          /\ output.field_to_confidence[label] = Exactly(input.boxes[k].conf)
                          /\ output.error = "" =>
                                /\ output.field_to_text[label] =
                                      (IF Truthy(r) THEN strip(r.text) ELSE NoText)
                                /\ label \in DesiredSet =>
                                      /\ output.payload.data[label] = output.field_to_text[label]
                                      /\ output.payload.yolo_confidence[label] =
                                            Round3(Exactly(input.boxes[k].conf))

\* Two qualifying boxes of the identity number, both with a text, the second
\* scoring more: the second is kept and read.
C14_Witness ==
    /\ called
    /\ output.error = ""
    /\ Len(input.boxes) = 2
    /\ QualifyingOf("id") = {1, 2}
    /\ input.boxes[1].conf < input.boxes[2].conf
    /\ YieldsText(input.boxes[1]) /\ YieldsText(input.boxes[2])
    /\ output.recognized = <<2>>
    /\ output.payload.data["id"] = input.boxes[2].result.text

\* The labels the detector reported.
Encountered == {input.boxes[i].label : i \in 1..Len(input.boxes)}

\* C15: for every set of detections, the empty one included, each of the
\* sections data, yolo_confidence and ocr_confidence of the payload has an
\* entry for every one of the 9 schema fields and an entry for every label
\* outside the schema that was encountered.
C15_AllLabelsReported ==
    (called /\ output.error = "") =>
        /\ Cardinality(DesiredSet) = 9
        /\ \A label \in DesiredSet \cup Encountered :
              /\ label \in DOMAIN output.payload.data
              /\ label \in DOMAIN output.payload.yolo_confidence
              /\ label \in DOMAIN output.payload.ocr_confidence

\* The recognizer returned a text of at least one character for the box.
ProducedText(box) ==
    /\ box.result.kind \in {"pair", "text"}
    /\ box.result.text # NoText

\* The recognition confidence of the box: the probability returned with
\* the text, or the estimate when the text came alone.
RecognitionConfidence(box) ==
    IF box.result.kind = "pair" THEN box.result.prob
    ELSE estimate_confidence(box.result.text, FALSE)

\* The sum of v[i] over the places i of S.
RECURSIVE SumBy(_, _)
SumBy(S, v) ==
    IF S = {} THEN 0
    ELSE LET i == CHOOSE i \in S : TRUE IN v[i] + SumBy(S \ {i}, v)

Scores == [i \in 1..Len(input.boxes) |-> input.boxes[i].conf]

\* The mean of v over S, rounded to thousandths; 0.0 over no box.
MeanRound3(S, v) ==
    IF S = {} THEN 0 ELSE Round3([n |-> SumBy(S, v), d |-> Cardinality(S)])

\* C16 as stated: for a multi-line field the reported detection-confidence
\* is the mean of the scores of every qualifying box retained for the label,
\* the boxes whose recognition returned an empty text included, and the
\* recognition-confidence is the mean over the boxes that produced a
\* non-empty text.
C16_AsStated ==
    (called /\ output.error = "") =>
        \A label \in MULTILINE_FIELDS :
            LET Q == QualifyingOf(label)
                T == {i \in Q : ProducedText(input.boxes[i])}
            IN  /\ output.payload.yolo_confidence[label] = MeanRound3(Q, Scores)
                /\ output.payload.ocr_confidence[label] =
                      MeanRound3(T, [i \in 1..Len(input.boxes) |->
                                        RecognitionConfidence(input.boxes[i])])

\* C16: for a multi-line field the reported detection-confidence is the
\* mean of the scores of the qualifying boxes of the label that produced a
\* non-empty text, and the recognition-confidence is the mean of the
\* recognition confidences of the same boxes; both are 0.0 when no box
\* produced a text.
C16_MeansOverReadBoxes ==
    (called /\ output.error = "") =>
        \A label \in MULTILINE_FIELDS :
            LET Q == QualifyingOf(label)
                T == {i \in Q : ProducedText(input.boxes[i])}
            IN  /\ Len(output.field_to_bboxes[label]) = Cardinality(Q)
                /\ output.payload.yolo_confidence[label] = MeanRound3(T, Scores)
                /\ output.payload.ocr_confidence[label] =
                      MeanRound3(T, [i \in 1..Len(input.boxes) |->
                                        RecognitionConfidence(input.boxes[i])])
                /\ T # {} =>
                      output.field_to_confidence[label] =
                          [n |-> SumBy(T, Scores), d |-> Cardinality(T)]

\* Two retained boxes of the name with different scores, of which one was
\* read as the empty text: the detection-confidence is the other's score.
C16_Witness ==
    /\ called
    /\ output.error = ""
    /\ Len(input.boxes) = 2
    /\ QualifyingOf("name") = {1, 2}
    /\ input.boxes[1].conf # input.boxes[2].conf
    /\ ProducedText(input.boxes[1])
    /\ input.boxes[2].result.kind = "pair" /\ input.boxes[2].result.text = NoText
    /\ output.payload.yolo_confidence["name"] = Round3(Exactly(input.boxes[1].conf))

\* The detector's boxes with the recognizer returning ("", 0.0) on the
\* crop of box i.
WithEmptyText(boxes, i) ==
    [boxes EXCEPT ![i].result = [kind |-> "pair", text |-> NoText, prob |-> 0]]

\* The recognizer throws, or returns None, on the crop of the box.
FailsToRead(box) == box.result.kind \in {"raise", "none"}

\* C17: if the recognition call for a box throws or returns nothing, the
\* box counts as the text "" with confidence 0.0 and the extraction goes
\* on: no exception of the recognizer leaves the run, and the texts, the
\* confidences and the payload are those of the run in which that box
\* yielded the empty text.
C17_FailedReadIsEmpty ==
    called =>
        \A i \in 1..Len(input.boxes) :
            FailsToRead(input.boxes[i]) =>
                LET r == predict_with_confidence(input.boxes[i].result)
                IN  /\ ~r.raised /\ ~Truthy(r) /\ r.confidence = 0
                    /\ output.error # "Exception"
                    /\ output = run(WithEmptyText(input.boxes, i))

\* The recognizer throws on one retained box and reads a text on another:
\* the payload is produced and carries the text.
C17_Witness ==
    /\ called
    /\ Len(input.boxes) = 2
    /\ Qualifies(input.boxes[1]) /\ input.boxes[1].result.kind = "raise"
    /\ Qualifies(input.boxes[2]) /\ YieldsText(input.boxes[2])
    /\ input.boxes[2].label = "id"
    /\ output.recognized = <<2, 1>>
    /\ output.error = ""
    /\ output.payload.data["id"] = input.boxes[2].result.text

(***************************************************************************)
(* The OCR endpoint (app.py, ocr_api).  One request is handled; input is   *)
(* the request, output the locals and the response of the handler, files   *)
(* the upload folder, the output folder and the history database.          *)
(***************************************************************************)
ALLOWED_EXTENSIONS == {"png", "jpg", "jpeg", "gif", "bmp", "tiff"}

\* str.lower on the extensions of the requests
lower(ext) == IF ext = "PNG" THEN "png" ELSE IF ext = "JPG" THEN "jpg" ELSE ext

\* A filename is [stem, ext]; ext = "" is a name without a dot.
allowed_file(filename) == filename.ext # "" /\ lower(filename.ext) \in ALLOWED_EXTENSIONS

UploadPath == "uploads/uuid_filename"
UploadCropped == "uploads/uuid_filename_cropped"
ResultPath == "outputs/uuid_result.json"
HistoryDb == "ocr_history.db"
ApiPaths == {UploadPath, UploadCropped, ResultPath, HistoryDb}

Filenames ==
    {[stem |-> "", ext |-> ""], [stem |-> "card", ext |-> ""],
     [stem |-> "card", ext |-> "txt"], [stem |-> "card", ext |-> "jpg"],
     [stem |-> "cccd", ext |-> "PNG"]}

\* The form values of crop_conf: missing (the default 0.5), a number, a word.
FormValues == {"missing", "0.7", "abc"}

NoResponse == [status |-> 0, success |-> FALSE]

InitApi ==
    /\ \E has_file \in BOOLEAN, filename \in Filenames, crop_conf \in FormValues,
          device \in {"cpu", "cuda"} :
          input = [has_file |-> has_file, filename |-> filename,
                   crop_conf |-> crop_conf, device |-> device]
    /\ output = [input_path |-> FALSE, saved |-> FALSE, record_id |-> FALSE,
                 response |-> NoResponse]
    /\ called = FALSE
    /\ pc = "api_request"
    /\ detections = <<>>
    /\ emblem = NoPoint
    /\ corners = <<>>
    /\ ordered = <<>>
    /\ warped = <<0, 0>>
    /\ cropped_image_path = Pending
    /\ files = [p \in ApiPaths |-> IF p = HistoryDb THEN "empty" ELSE "absent"]
    /\ cropCalls = 0
    /\ ocrCalls = 0
    /\ raised = NoRaise
    /\ sys_modules = NoModules
    /\ accesses = {}

ApiUnchanged == <<input, called, detections, emblem, corners, ordered, warped,
                  cropped_image_path, cropCalls, ocrCalls, procVars>>

\* An exception reaches the except clause of the handler.
ApiRaise(where, exc) ==
    /\ pc' = "api_except"
    /\ raised' = <<where, exc, "">>

\* Lines 90-98: the three 400 responses, before anything is saved.
ApiValidate ==
    /\ pc = "api_request"
    /\ IF ~input.has_file \/ input.filename = [stem |-> "", ext |-> ""]
          \/ ~allowed_file(input.filename)
       THEN /\ pc' = "api_returned"
            /\ output' = [output EXCEPT !.response = [status |-> 400, success |-> FALSE]]
       ELSE /\ pc' = "api_save"
            /\ UNCHANGED output
    /\ UNCHANGED <<ApiUnchanged, files, raised>>

\* Lines 101-104: input_path is bound, then file.save writes the upload or
\* fails, with nothing or a part of the file written.
ApiSave ==
    /\ pc = "api_save"
    /\ \/ /\ files' = [files EXCEPT ![UploadPath] = "image"]
          /\ output' = [output EXCEPT !.input_path = TRUE, !.saved = TRUE]
          /\ pc' = "api_params"
          /\ UNCHANGED raised
       \/ /\ \E left \in {"absent", "partial"} :
                files' = [files EXCEPT ![UploadPath] = left]
          /\ output' = [output EXCEPT !.input_path = TRUE]
          /\ ApiRaise("file.save", "OSError")
    /\ UNCHANGED ApiUnchanged

\* Lines 111-113: float() of a form value that is no number raises.
ApiParams ==
    /\ pc = "api_params"
    /\ IF input.crop_conf = "abc"
       THEN ApiRaise("float", "ValueError")
       ELSE pc' = "api_pipeline" /\ UNCHANGED raised
    /\ UNCHANGED <<ApiUnchanged, output, files>>

\* Lines 116-129: run_pipeline returns the payload, with the cropped image
\* and the result file written, or raises with any part of them written.
ApiRunPipeline ==
    /\ pc = "api_pipeline"
    /\ \/ /\ files' = [files EXCEPT ![UploadCropped] = "image", ![ResultPath] = "augmented"]
          /\ pc' = "api_respond"
          /\ UNCHANGED raised
       \/ /\ \E cropped \in {"absent", "image"}, result \in {"absent", "partial", "payload"} :
                /\ cropped = "absent" => result = "absent"
                /\ files' = [files EXCEPT ![UploadCropped] = cropped, ![ResultPath] = result]
          /\ ApiRaise("run_pipeline", "Exception")
    /\ UNCHANGED <<ApiUnchanged, output>>

\* Lines 132-160: the response data; an exception here (stat of the upload)
\* goes to the except clause.
ApiBuildResponse ==
    /\ pc = "api_respond"
    /\ \/ pc' = "api_store" /\ UNCHANGED raised
       \/ ApiRaise("response_data", "OSError")
    /\ UNCHANGED <<ApiUnchanged, output, files>>

\* Lines 163-184: the history record; its failure is printed and the
\* handler goes on.
ApiStoreHistory ==
    /\ pc = "api_store"
    /\ \/ /\ files' = [files EXCEPT ![HistoryDb] = "record"]
          /\ output' = [output EXCEPT !.record_id = TRUE]
       \/ UNCHANGED <<files, output>>
    /\ pc' = "api_remove"
    /\ UNCHANGED <<ApiUnchanged, raised>>

\* os.remove inside try / except: pass: the file is removed, or the call
\* fails and the file stays.
os_remove(kind) == {"absent", kind}

\* Lines 187-190.
ApiRemove ==
    /\ pc = "api_remove"
    /\ \E after \in os_remove(files[UploadPath]) :
          files' = [files EXCEPT ![UploadPath] = after]
    /\ pc' = "api_jsonify"
    /\ UNCHANGED <<ApiUnchanged, output, raised>>

\* Lines 192-195: the 200 response, or an exception of jsonify.
ApiReturn ==
    /\ pc = "api_jsonify"
    /\ \/ /\ output' = [output EXCEPT !.response = [status |-> 200, success |-> TRUE]]
          /\ pc' = "api_returned"
          /\ UNCHANGED raised
       \/ /\ ApiRaise("jsonify", "TypeError")
          /\ UNCHANGED output
    /\ UNCHANGED <<ApiUnchanged, files>>

\* Lines 197-203: the removal of the except clause, when input_path is bound.
ApiExceptRemove ==
    /\ pc = "api_except"
    /\ IF output.input_path
       THEN \E after \in os_remove(files[UploadPath]) :
               files' = [files EXCEPT ![UploadPath] = after]
       ELSE UNCHANGED files
    /\ pc' = "api_except_return"
    /\ UNCHANGED <<ApiUnchanged, output, raised>>

\* Lines 205-208: the 500 response.
ApiExceptReturn ==
    /\ pc = "api_except_return"
    /\ output' = [output EXCEPT !.response = [status |-> 500, success |-> FALSE]]
    /\ pc' = "api_returned"
    /\ UNCHANGED <<ApiUnchanged, files, raised>>

NextApi ==
    \/ ApiValidate
    \/ ApiSave
    \/ ApiParams
    \/ ApiRunPipeline
    \/ ApiBuildResponse
    \/ ApiStoreHistory
    \/ ApiRemove
    \/ ApiReturn
    \/ ApiExceptRemove
    \/ ApiExceptReturn

SpecApi == InitApi /\ [][NextApi]_vars

\* C18: for every request that saved its upload as a temporary input file,
\* on every exit path of the handler (success, failure of the pipeline, of
\* the response or of the history) the temporary input file no longer
\* exists when the handler returns.
C18_TempFileRemoved ==
    (pc = "api_returned" /\ output.saved) => files[UploadPath] = "absent"

(***************************************************************************)
(* Two invocations of run_pipeline in two threads of one process.  A path  *)
(* is [root, ext], as os.path.splitext gives it, root being the sequence   *)
(* of its parts.  The content of a file is [origin, stages]: the image it  *)
(* descends from and the stages that produced it from that image.          *)
(***************************************************************************)
Invocations == {1, 2}

NoPath == [root |-> <<>>, ext |-> ""]
Absent == [origin |-> NoPath, stages |-> <<>>]

ImagePaths ==
    {[root |-> <<"card">>, ext |-> ""],
     [root |-> <<"card">>, ext |-> ".jpg"],
     [root |-> <<"id">>, ext |-> ".png"],
     [root |-> <<"card", "_cropped">>, ext |-> ".jpg"]}

\* f"{root}_cropped{ext or '.jpg'}"
cropped_path(image_path) ==
    [root |-> Append(image_path.root, "_cropped"),
     ext |-> IF image_path.ext = "" THEN ".jpg" ELSE image_path.ext]

OutputJsonOf(i) == [root |-> <<"out", IF i = 1 THEN "1" ELSE "2">>, ext |-> ".json"]

ModuleEntry(name) == [root |-> <<"sys.modules", name>>, ext |-> ""]

ConcPaths ==
    ImagePaths \cup {cropped_path(p) : p \in ImagePaths}
               \cup {OutputJsonOf(i) : i \in Invocations}

\* What a stage writes from what it read.
Staged(content, stage) == [content EXCEPT !.stages = Append(@, stage)]

NoLocals == [buffer |-> Absent, payload |-> Absent, returned |-> FALSE]

InitConc ==
    /\ \E a, b \in ImagePaths :
          /\ a # b
          /\ input = [image |-> <<a, b>>,
                      output_json |-> <<OutputJsonOf(1), OutputJsonOf(2)>>]
    /\ output = [i \in Invocations |-> NoLocals]
    /\ called = FALSE
    /\ pc = [i \in Invocations |-> "load_crop"]
    /\ detections = <<>>
    /\ emblem = NoPoint
    /\ corners = <<>>
    /\ ordered = <<>>
    /\ warped = <<0, 0>>
    /\ cropped_image_path = [i \in Invocations |-> NoPath]
    /\ files = [p \in ConcPaths |->
                   IF p \in ImagePaths THEN [origin |-> p, stages |-> <<>>] ELSE Absent]
    /\ cropCalls = 0
    /\ ocrCalls = 0
    /\ raised = NoRaise
    /\ sys_modules = NoModules
    /\ accesses = {}

ConcUnchanged == <<input, called, detections, emblem, corners, ordered, warped, raised>>

Access(i, op, loc) == accesses' = accesses \cup {[inv |-> i, op |-> op, loc |-> loc]}

\* Line 45: _load_attr_from_py of stages/crop.py installs a fresh module in
\* sys.modules under the stem of the file.
ConcLoadCrop(i) ==
    /\ pc[i] = "load_crop"
    /\ sys_modules' = [sys_modules EXCEPT !["crop"] = i]
    /\ Access(i, "write", ModuleEntry("crop"))
    /\ pc' = [pc EXCEPT ![i] = "load_ocr"]
    /\ UNCHANGED <<ConcUnchanged, output, files, cropped_image_path, cropCalls, ocrCalls>>

\* Line 46: the same for stages/ocr.py.
ConcLoadOcr(i) ==
    /\ pc[i] = "load_ocr"
    /\ sys_modules' = [sys_modules EXCEPT !["ocr"] = i]
    /\ Access(i, "write", ModuleEntry("ocr"))
    /\ pc' = [pc EXCEPT ![i] = "crop_read"]
    /\ UNCHANGED <<ConcUnchanged, output, files, cropped_image_path, cropCalls, ocrCalls>>

\* crop_cccd reads the input image.
ConcCropRead(i) ==
    /\ pc[i] = "crop_read"
    /\ output' = [output EXCEPT ![i].buffer = files[input.image[i]]]
    /\ Access(i, "read", input.image[i])
    /\ cropCalls' = cropCalls + 1
    /\ pc' = [pc EXCEPT ![i] = "crop_write"]
    /\ UNCHANGED <<ConcUnchanged, files, cropped_image_path, ocrCalls, sys_modules>>

\* crop_cccd writes the rectified image next to the input and returns its
\* path.
ConcCropWrite(i) ==
    /\ pc[i] = "crop_write"
    /\ LET output_path == cropped_path(input.image[i])
       IN  /\ files' = [files EXCEPT ![output_path] = Staged(output[i].buffer, "crop")]
           /\ cropped_image_path' = [cropped_image_path EXCEPT ![i] = output_path]
           /\ Access(i, "write", output_path)
    /\ pc' = [pc EXCEPT ![i] = "ocr_read"]
    /\ UNCHANGED <<ConcUnchanged, output, cropCalls, ocrCalls, sys_modules>>

\* ocr.run reads the rectified image.
ConcOcrRead(i) ==
    /\ pc[i] = "ocr_read"
    /\ output' = [output EXCEPT ![i].buffer = files[cropped_image_path[i]]]
    /\ Access(i, "read", cropped_image_path[i])
    /\ ocrCalls' = ocrCalls + 1
    /\ pc' = [pc EXCEPT ![i] = "ocr_write"]
    /\ UNCHANGED <<ConcUnchanged, files, cropped_image_path, cropCalls, sys_modules>>

\* ocr.run writes the payload of what it read.
ConcOcrWrite(i) ==
    /\ pc[i] = "ocr_write"
    /\ files' = [files EXCEPT ![input.output_json[i]] = Staged(output[i].buffer, "ocr")]
    /\ Access(i, "write", input.output_json[i])
    /\ pc' = [pc EXCEPT ![i] = "aug_read"]
    /\ UNCHANGED <<ConcUnchanged, output, cropped_image_path, cropCalls, ocrCalls, sys_modules>>

\* Lines 80-81: the orchestrator loads the payload.
ConcAugRead(i) ==
    /\ pc[i] = "aug_read"
    /\ output' = [output EXCEPT ![i].payload = files[input.output_json[i]]]
    /\ Access(i, "read", input.output_json[i])
    /\ pc' = [pc EXCEPT ![i] = "aug_write"]
    /\ UNCHANGED <<ConcUnchanged, files, cropped_image_path, cropCalls, ocrCalls, sys_modules>>

\* Lines 83-89: the augmented payload is written and returned.
ConcAugWrite(i) ==
    /\ pc[i] = "aug_write"
    /\ files' = [files EXCEPT ![input.output_json[i]] = Staged(output[i].payload, "augment")]
    /\ output' = [output EXCEPT ![i].payload = Staged(@, "augment"), ![i].returned = TRUE]
    /\ Access(i, "write", input.output_json[i])
    /\ pc' = [pc EXCEPT ![i] = "returned"]
    /\ UNCHANGED <<ConcUnchanged, cropped_image_path, cropCalls, ocrCalls, sys_modules>>

NextConc ==
    \E i \in Invocations :
        \/ ConcLoadCrop(i)
        \/ ConcLoadOcr(i)
        \/ ConcCropRead(i)
        \/ ConcCropWrite(i)
        \/ ConcOcrRead(i)
        \/ ConcOcrWrite(i)
        \/ ConcAugRead(i)
        \/ ConcAugWrite(i)

SpecConc == InitConc /\ [][NextConc]_vars

\* The payload run_pipeline returns for the image when it runs alone.
AlonePayload(image) == [origin |-> image, stages |-> <<"crop", "ocr", "augment">>]

\* C19: two invocations running concurrently on different input image
\* paths and different output paths share no mutable state: under every
\* interleaving neither reads or writes a file or module-level object
\* written by the other, and each returns the payload it would have
\* produced running alone.
C19_NoSharedState ==
    /\ \A x, y \in accesses :
          (x.inv # y.inv /\ x.loc = y.loc) => (x.op = "read" /\ y.op = "read")
    /\ \A i \in Invocations :
          output[i].returned => output[i].payload = AlonePayload(input.image[i])

(***************************************************************************)
(* The payload file: json.dump by ocr.run, json.load and json.dump by      *)
(* run_pipeline.  A JSON string is the sequence of its characters between  *)
(* and with the quotes; a JSON number is [whole, frac], the digits before  *)
(* and after the point.  A confidence of the payload is a number of        *)
(* thousandths, as round(..., 3) leaves it.                                *)
(***************************************************************************)
\* The confidence written with 2 decimals.
format_float_2dp(k) ==
    LET f == k % 1000
        d1 == f \div 100
        d2 == (f \div 10) % 10
    IN  [whole |-> k \div 1000, frac |-> IF d2 # 0 THEN <<d1, d2>> ELSE <<d1>>]

\* float.__repr__ of k / 1000: the shortest digits, at least one decimal.
format_float(k) ==
    LET f == k % 1000
        d1 == f \div 100
        d2 == (f \div 10) % 10
        d3 == f % 10
    IN  [whole |-> k \div 1000,
         frac |-> IF d3 # 0 THEN <<d1, d2, d3>>
                  ELSE IF d2 # 0 THEN <<d1, d2>>
                  ELSE <<d1>>]

\* The float read from the digits, in thousandths.
parse_float(token) ==
    LET digit(i) == IF i <= Len(token.frac) THEN token.frac[i] ELSE 0
    IN  token.whole * 1000 + digit(1) * 100 + digit(2) * 10 + digit(3)

format_int(n) == [whole |-> n, frac |-> <<>>]
parse_int(token) == token.whole

\* The quote and the backslash are escaped; ensure_ascii = False leaves the
\* other characters as they are.
RECURSIVE Escaped(_)
Escaped(text) ==
    IF text = <<>> THEN <<>>
    ELSE (IF Head(text) \in {"\"", "\\"} THEN <<"\\", Head(text)>> ELSE <<Head(text)>>)
         \o Escaped(Tail(text))

RECURSIVE Unescaped(_)
Unescaped(chars) ==
    IF chars = <<>> THEN <<>>
    ELSE IF Head(chars) = "\\" /\ Len(chars) >= 2
    THEN <<chars[2]>> \o Unescaped(SubSeq(chars, 3, Len(chars)))
    ELSE <<Head(chars)>> \o Unescaped(Tail(chars))

encode_string(text) == <<"\"">> \o Escaped(text) \o <<"\"">>
decode_string(token) == Unescaped(SubSeq(token, 2, Len(token) - 1))

\* json.dump and json.load of a payload, key by key: the texts of data and
\* the path are strings, the confidences floats, the runtime an int.
json_dump(payload) ==
    [k \in DOMAIN payload |->
        IF k = "data" THEN [f \in DOMAIN payload[k] |-> encode_string(payload[k][f])]
        ELSE IF k = "cropped_image" THEN encode_string(payload[k])
        ELSE IF k = "runtime_ms" THEN format_int(payload[k])
        ELSE [f \in DOMAIN payload[k] |-> format_float(payload[k][f])]]

json_load(document) ==
    [k \in DOMAIN document |->
        IF k = "data" THEN [f \in DOMAIN document[k] |-> decode_string(document[k][f])]
        ELSE IF k = "cropped_image" THEN decode_string(document[k])
        ELSE IF k = "runtime_ms" THEN parse_int(document[k])
        ELSE [f \in DOMAIN document[k] |-> parse_float(document[k][f])]]

\* The texts, confidences, runtimes and paths of the payloads.
JsonTexts ==
    {<<>>, <<"a">>, <<"a", " ", "b">>, <<"a", "\"", "b">>, <<"\\", "a">>, <<"\\", "\\">>}
JsonConfidences == {0, 5, 50, 120, 500, 877, 1000}
JsonRuntimes == {0, 1234}
JsonCroppedPaths == {<<"c", ".", "j">>, <<"C", ":", "\\", "c", ".", "j">>}

\* The payload of the extraction stage with one field read.
PayloadOf(field, text, yolo, ocr) ==
    [data |-> [k \in DesiredSet |-> IF k = field THEN text ELSE NoText],
     yolo_confidence |-> [k \in DesiredSet |-> IF k = field THEN yolo ELSE 0],
     ocr_confidence |-> [k \in DesiredSet |-> IF k = field THEN ocr ELSE 0]]

NoDocument == <<>>

InitJson ==
    /\ \E field \in {"id", "name"}, text \in JsonTexts, yolo, ocr \in JsonConfidences,
          runtime_ms \in JsonRuntimes, path \in JsonCroppedPaths :
          input = [payload |-> PayloadOf(field, text, yolo, ocr),
                   runtime_ms |-> runtime_ms, cropped_image_path |-> path]
    /\ output = NoDocument
    /\ called = FALSE
    /\ pc = "json_dump"
    /\ detections = <<>>
    /\ emblem = NoPoint
    /\ corners = <<>>
    /\ ordered = <<>>
    /\ warped = <<0, 0>>
    /\ cropped_image_path = Pending
    /\ files = [p \in {OutputJson} |-> NoDocument]
    /\ cropCalls = 0
    /\ ocrCalls = 0
    /\ raised = NoRaise
    /\ sys_modules = NoModules
    /\ accesses = {}

JsonUnchanged == <<input, called, detections, emblem, corners, ordered, warped,
                   cropped_image_path, cropCalls, ocrCalls, raised, procVars>>

\* ocr.py 241-243: the extraction stage writes its payload.
JsonOcrDump ==
    /\ pc = "json_dump"
    /\ files' = [files EXCEPT ![OutputJson] = json_dump(input.payload)]
    /\ pc' = "json_load"
    /\ UNCHANGED <<JsonUnchanged, output>>

\* pipeline-ocr-cccd.py 80-81: the orchestrator parses the file.
JsonPipeLoad ==
    /\ pc = "json_load"
    /\ output' = json_load(files[OutputJson])
    /\ pc' = "json_augment"
    /\ UNCHANGED <<JsonUnchanged, files>>

\* pipeline-ocr-cccd.py 83-89: two keys are set, the file is rewritten and
\* the payload returned.
JsonPipeAugment ==
    /\ pc = "json_augment"
    /\ LET payload == ("runtime_ms" :> input.runtime_ms)
                      @@ ("cropped_image" :> input.cropped_image_path)
                      @@ output
       IN  /\ output' = payload
           /\ files' = [files EXCEPT ![OutputJson] = json_dump(payload)]
    /\ pc' = "json_returned"
    /\ UNCHANGED JsonUnchanged

NextJson ==
    \/ JsonOcrDump
    \/ JsonPipeLoad
    \/ JsonPipeAugment

SpecJson == InitJson /\ [][NextJson]_vars

PayloadSections == {"data", "yolo_confidence", "ocr_confidence"}

\* C20: the payload the orchestrator parses from the file of the extraction
\* stage has the field texts and the 3-decimal confidences that stage
\* serialized, and the augmentation adds only runtime_ms and cropped_image:
\* data, yolo_confidence and ocr_confidence are unchanged in the returned
\* payload and in the final file.
C20_RoundTrip ==
    /\ pc = "json_augment" =>
          /\ DOMAIN output = PayloadSections
          /\ \A s \in PayloadSections : output[s] = input.payload[s]
    /\ pc = "json_returned" =>
          LET final == json_load(files[OutputJson])
          IN  /\ DOMAIN output = PayloadSections \cup {"runtime_ms", "cropped_image"}
              /\ DOMAIN final = DOMAIN output
              /\ \A s \in PayloadSections :
                    output[s] = input.payload[s] /\ final[s] = input.payload[s]
              /\ output["runtime_ms"] = input.runtime_ms
              /\ final["runtime_ms"] = input.runtime_ms
              /\ output["cropped_image"] = input.cropped_image_path
              /\ final["cropped_image"] = input.cropped_image_path

\* A payload with a quote in a text and a confidence of three decimals has
\* been written, parsed, augmented and returned.
C20_Witness ==
    /\ pc = "json_returned"
    /\ input.payload.data["name"] = <<"a", "\"", "b">>
    /\ input.payload.yolo_confidence["name"] = 877
    /\ files[OutputJson]["data"]["name"] = <<"\"", "a", "\\", "\"", "b", "\"">>
    /\ files[OutputJson]["yolo_confidence"]["name"] = [whole |-> 0, frac |-> <<8, 7, 7>>]
    /\ output["data"]["name"] = <<"a", "\"", "b">>

(***************************************************************************)
(* The end of crop_cccd after the warp (crop.py 300-322): the residual     *)
(* top-edge deskew, the orientation by the projected landmark and the      *)
(* aspect padding.  An image is its size and the list of the operations    *)
(* applied to the warped pixels.                                           *)
(***************************************************************************)
\* tan(0.3 degrees) = SkewTanNum / SkewTanDen
SkewTanNum == 5236
SkewTanDen == 1000000

\* abs(math.degrees(math.atan2(dy, dx))) > 0.3
ExceedsSkew(dx, dy) ==
    IF dy = 0 THEN dx < 0
    ELSE IF dx <= 0 THEN TRUE
    ELSE SkewTanDen * Abs(dy) > SkewTanNum * dx

\* The top edge taken from the ordered corners of the detection.
top_edge_of_corners(width, height, quad) == <<quad[1], quad[2]>>

\* Line 302: tl and tr are the corners of the warped rectangle itself.
top_edge(width, height, quad) == <<<<0, 0>>, <<width - 1, 0>>>>

\* Lines 300-312: the deskew option of crop_cccd is not read.
residual_deskew(image, quad, deskew) ==
    LET edge == top_edge(image.width, image.height, quad)
        dx == edge[2][1] - edge[1][1]
        dy == edge[2][2] - edge[1][2]
    IN  IF ExceedsSkew(dx, dy)
        THEN [image EXCEPT !.applied = Append(@, <<"warpAffine", dx, dy>>)]
        ELSE image

\* Lines 315-319.
orient(image, has_emblem, x2, y2) ==
    LET turned == rotate_to_place_point_top_left(image.width, image.height, x2, y2)
    IN  IF ~has_emblem \/ turned.rot = 0 THEN image
        ELSE [width |-> turned.width, height |-> turned.height,
              applied |-> Append(image.applied, <<"rotate", turned.rot, 0>>)]

\* Line 322.
pad_image(image, num, den) ==
    LET padded == pad_to_aspect(image.width, image.height, num, den)
    IN  IF padded.width = image.width /\ padded.height = image.height THEN image
        ELSE [width |-> padded.width, height |-> padded.height,
              applied |-> Append(image.applied,
                                 <<"copyMakeBorder", padded.left + padded.right,
                                   padded.top + padded.bottom>>)]

crop_tail(width, height, quad, has_emblem, x2, y2, deskew) ==
    LET warped_image == [width |-> width, height |-> height, applied |-> <<>>]
        deskewed == residual_deskew(warped_image, quad, deskew)
    IN  [deskewed |-> deskewed,
         image |-> pad_image(orient(deskewed, has_emblem, x2, y2), AspectNum, AspectDen)]

\* The ordered corners of three detections: straight, and skewed both ways.
Quads ==
    {<<<<0, 0>>, <<3, 0>>, <<3, 2>>, <<0, 2>>>>,
     <<<<0, 0>>, <<3, 1>>, <<3, 3>>, <<0, 2>>>>,
     <<<<0, 1>>, <<3, 0>>, <<3, 2>>, <<0, 3>>>>}

InitDeskew ==
    /\ \E w, h \in 1..MaxSide, quad \in Quads, deskew, has_emblem \in BOOLEAN :
          \E x2 \in 0..(2 * w), y2 \in 0..(2 * h) :
              /\ ~has_emblem => (x2 = 0 /\ y2 = 0)
              /\ input = [width |-> w, height |-> h, ordered |-> quad, deskew |-> deskew,
                          has_emblem |-> has_emblem, x2 |-> x2, y2 |-> y2]
    /\ output = Pending
    /\ called = FALSE
    /\ IdlePipe

CropTail ==
    /\ ~called
    /\ output' = crop_tail(input.width, input.height, input.ordered, input.has_emblem,
                           input.x2, input.y2, input.deskew)
    /\ called' = TRUE
    /\ UNCHANGED <<input, pipeVars, procVars>>

NextDeskew == CropTail

SpecDeskew == InitDeskew /\ [][NextDeskew]_vars

C22_EmptyTextZeroConfidence ==
    (called /\ output.error = "") =>
        \A k \in DesiredSet :
            output.payload.data[k] = NoText => output.payload.ocr_confidence[k] = 0

====
